---- MODULE Spec2Model ----
(***************************************************************************)
(* The user-creation scripts of k6_final: dashboard_user.py and the four   *)
(* scripts of user_creation_k6_old.  Each script is one run of main(N):    *)
(* obtain the admin token, open the sink, and for each of N users create   *)
(* the account, acquire a session (browser login, redirect walk or token   *)
(* grant) and write one row.  The identity provider, the web application   *)
(* and the browser are the environment: every response is drawn from a     *)
(* small set.  Text is modelled as a sequence of one-character strings so  *)
(* that formatting, joining and scanning are computed, not assumed.        *)
(***************************************************************************)
EXTENDS Integers, Sequences, FiniteSets, TLC

\* ---------------------------------------------------------------- bounds
MaxUsers == 2
RandMax == 2
MaxSegs == 5

\* ------------------------------------------------------------- text model
BASE_URL == <<"h","t","t","p","s",":","/","/","1","6","4",".","5","2",".","2","1","3",".","1","5","8">>
COMMON_PASSWORD == <<"P","a","s","s","w","o","r","d","1","2","3","!">>
PREFIX == <<"l","o","a","d","_","u","s","e","r","_">>
HEADER == <<"u","s","e","r","n","a","m","e",",","p","a","s","s","w","o","r","d",",","v","u","n","e","t","_","s","e","s","s","i","o","n",",","X","-","V","u","N","e","t","-","H","T","T","P","-","I","n","f","o",",","g","r","a","f","a","n","a","_","s","e","s","s","i","o","n","_","e","x","p","i","r","y">>
LOGIN_PATH == <<"/","v","u","i","/","l","o","g","i","n","/","g","e","n","e","r","i","c","_","o","a","u","t","h">>
AUTH_PATH == <<"/","r","e","a","l","m","s","/","v","u","n","e","t","/","p","r","o","t","o","c","o","l","/","o","p","e","n","i","d","-","c","o","n","n","e","c","t","/","a","u","t","h">>
BROWSER_LOGIN_PATH == <<"/","v","u","i","/","l","o","g","i","n">>

\* str(None) as an f-string renders it
NoneText == <<"N","o","n","e">>

Variants == {"dashboard_user", "user_cookies", "user_cookies1", "test", "new_users"}

\* An optional value (None or a value) is a sequence of length 0 or 1.
None == <<>>
Some(v) == <<v>>

\* str(n) for n >= 0, digit by digit
Digit(d) == CASE d = 0 -> "0" [] d = 1 -> "1" [] d = 2 -> "2" [] d = 3 -> "3"
              [] d = 4 -> "4" [] d = 5 -> "5" [] d = 6 -> "6" [] d = 7 -> "7"
              [] d = 8 -> "8" [] d = 9 -> "9"

RECURSIVE Str(_)
Str(n) == IF n < 10 THEN <<Digit(n)>> ELSE Str(n \div 10) \o <<Digit(n % 10)>>

\* f"{prefix}{random.randint(1, 10000)}" for the drawn number r
generate_username(r) == PREFIX \o Str(r)

\* ",".join(fields), as the rows' f-strings concatenate their fields
RECURSIVE JoinComma(_)
JoinComma(fields) ==
    IF fields = <<>> THEN <<>>
    ELSE IF Len(fields) = 1 THEN fields[1]
    ELSE fields[1] \o <<",">> \o JoinComma(Tail(fields))

\* ------------------------------------------------------------ dictionaries
\* A dict is a function from the set of its keys to text.
EmptyDict == [k \in {} |-> <<>>]
Restrict(d, S) == [k \in S |-> d[k]]
Merge(j, s) == [k \in (DOMAIN j) \cup (DOMAIN s) |-> IF k \in DOMAIN s THEN s[k] ELSE j[k]]

\* d.get(k): None when the key is absent
Get(d, k) == IF k \in DOMAIN d THEN Some(d[k]) ELSE None
\* d.get(k, dflt)
GetDefault(d, k, dflt) == IF k \in DOMAIN d THEN Some(d[k]) ELSE Some(dflt)
\* f"{x}" of an optional text
Fmt(x) == IF x = None THEN NoneText ELSE x[1]
\* Python truth of an optional text: None and "" are false
Truthy(x) == x /= None /\ x[1] /= <<>>
\* A test for None only: an empty dict passes.
IsNotNone(x) == x /= None

\* Python truth of an optional dict: None and {} are false
TruthyDict(x) == x /= None /\ DOMAIN x[1] /= {}

\* ------------------------------------------------------------ environment
CookieNames == {"vunet_session", "X-VuNet-HTTP-Info", "grafana_session_expiry", "AUTH_SESSION_ID"}
SessionCookieNames == {"vunet_session", "X-VuNet-HTTP-Info", "grafana_session_expiry"}
FullCookies == [k \in CookieNames |->
                   CASE k = "vunet_session" -> <<"s">>
                     [] k = "X-VuNet-HTTP-Info" -> <<"h">>
                     [] k = "grafana_session_expiry" -> <<"e">>
                     [] k = "AUTH_SESSION_ID" -> <<"k">>]

\* What a response may add to a cookie store before the credentials are sent
\* (the login URL, the login page) ...
PreLoginCookies ==
    { EmptyDict,
      Restrict(FullCookies, {"AUTH_SESSION_ID"}) }

\* ... and once they were sent (the credential POST, the pages after it).
SetCookieChoices ==
    { EmptyDict,
      Restrict(FullCookies, SessionCookieNames),
      Restrict(FullCookies, {"vunet_session", "X-VuNet-HTTP-Info"}),
      [k \in SessionCookieNames |-> IF k = "vunet_session" THEN <<>> ELSE FullCookies[k]] }

TokenNames == {"access_token", "refresh_token", "id_token", "token_type"}
FullTokens == [k \in TokenNames |->
                  CASE k = "access_token" -> <<"a">>
                    [] k = "refresh_token" -> <<"r">>
                    [] k = "id_token" -> <<"i">>
                    [] k = "token_type" -> <<"B">>]

\* The JSON objects the token endpoint may answer a user's grant with.
TokenBodies ==
    { EmptyDict,
      Restrict(FullTokens, {"token_type"}),
      Restrict(FullTokens, {"access_token", "token_type"}),
      Restrict(FullTokens, {"access_token", "refresh_token", "id_token"}),
      FullTokens }

\* The bearer token the admin grant returns.
ADMIN_TOKEN == <<"T">>

\* Location headers of the first response of the redirect walk.
RelLoc == <<"/","a","u","t","h","?","x","=","1">>
AbsLoc == <<"h","t","t","p","s",":","/","/","o","t","h","e","r","/","a","u","t","h">>
Locations == { None, Some(RelLoc), Some(AbsLoc) }

\* Pieces of login-page HTML.
ACTION_OPEN == <<"a","c","t","i","o","n","=","\"">>
QUOTE == <<"\"">>
SEG_FORM == <<"<","f","o","r","m"," ">>
SEG_CLOSE == <<">">>
SEG_A == <<"/","a">>
SEG_B == <<"/","b">>
SEG_ABS == <<"h","t","t","p","s",":","/","/","k","c","/","l","o","g","i","n">>
SEG_ABS2 == <<"h","t","t","p","s",":","/","/","k","c","/","o","t","h","e","r">>

FormTag(target) == SEG_FORM \o ACTION_OPEN \o target \o QUOTE \o SEG_CLOSE

\* The login pages the redirect target may return.
LoginPages ==
    { SEG_FORM \o SEG_CLOSE,
      FormTag(SEG_ABS),
      FormTag(SEG_ABS) \o FormTag(SEG_ABS2),
      FormTag(SEG_A) \o FormTag(SEG_B),
      FormTag(<<>>) \o FormTag(SEG_ABS) }

\* ------------------------------------------------------------ pure helpers
\* s[p .. p + Len(t) - 1] = t
HasAt(s, p, t) == /\ p >= 1
                  /\ p + Len(t) - 1 <= Len(s)
                  /\ SubSeq(s, p, p + Len(t) - 1) = t

StartsWith(s, t) == HasAt(s, 1, t)

\* Index of the first '"' at or after p, or 0
RECURSIVE NextQuote(_, _)
NextQuote(s, p) == IF p > Len(s) THEN 0
                   ELSE IF s[p] = "\"" THEN p
                   ELSE NextQuote(s, p + 1)

\* The pattern action="([^"]+)" matches at p: the literal, then one or more
\* characters other than '"', then '"'.
MatchAt(s, p) == /\ HasAt(s, p, ACTION_OPEN)
                 /\ NextQuote(s, p + Len(ACTION_OPEN)) > p + Len(ACTION_OPEN)

\* group(1) of the match at p
GroupAt(s, p) == SubSeq(s, p + Len(ACTION_OPEN), NextQuote(s, p + Len(ACTION_OPEN)) - 1)

RECURSIVE ScanFrom(_, _)
ScanFrom(s, p) == IF p > Len(s) THEN None
                  ELSE IF MatchAt(s, p) THEN Some(GroupAt(s, p))
                  ELSE ScanFrom(s, p + 1)

RECURSIVE ScanLastFrom(_, _)
ScanLastFrom(s, p) == IF p < 1 THEN None
                      ELSE IF MatchAt(s, p) THEN Some(GroupAt(s, p))
                      ELSE ScanLastFrom(s, p - 1)

\* A scan that keeps the last match instead of the first.
re_search_last(html) == ScanLastFrom(html, Len(html))

\* match = re.search(r'action="([^"]+)"', login_html);
\* form_action = match.group(1) if match else None
re_search(html) == ScanFrom(html, 1)

\* f"{BASE_URL}{redirect_url}"
redirect_target(redirect_url) == BASE_URL \o redirect_url

\* requests refuses a URL without a scheme (MissingSchema)
HasScheme(url) == StartsWith(url, <<"h","t","t","p","s",":","/","/">>)
                  \/ StartsWith(url, <<"h","t","t","p",":","/","/">>)

\* Index of the first "/" at or after p, or 0
RECURSIVE NextSlash(_, _)
NextSlash(s, p) == IF p > Len(s) THEN 0
                   ELSE IF s[p] = "/" THEN p
                   ELSE NextSlash(s, p + 1)

SchemeLen(url) == IF StartsWith(url, <<"h","t","t","p","s",":","/","/">>) THEN 8
                  ELSE IF StartsWith(url, <<"h","t","t","p",":","/","/">>) THEN 7
                  ELSE 0

\* The authority of a URL: the text between "://" and the next "/"
Authority(url) ==
    SubSeq(url, SchemeLen(url) + 1,
           IF NextSlash(url, SchemeLen(url) + 1) = 0 THEN Len(url)
           ELSE NextSlash(url, SchemeLen(url) + 1) - 1)

\* The hosts of the deployment that answer.
Hosts == { Authority(BASE_URL), <<"k","c">>, <<"o","t","h","e","r">> }

\* A request is sent only to a URL with a scheme (MissingSchema otherwise) and
\* is answered only by a host that exists (ConnectionError otherwise).
Answers(url) == HasScheme(url) /\ Authority(url) \in Hosts

\* ------------------------------------------------------------- the rows
\* A row that holds only the cookies the bundle has.
row_dashboard_user_compact(user, admin, d) ==
    << user, COMMON_PASSWORD >>
    \o (IF "vunet_session" \in DOMAIN d THEN << d["vunet_session"] >> ELSE <<>>)
    \o (IF "X-VuNet-HTTP-Info" \in DOMAIN d THEN << d["X-VuNet-HTTP-Info"] >> ELSE <<>>)
    \o (IF "grafana_session_expiry" \in DOMAIN d THEN << d["grafana_session_expiry"] >> ELSE <<>>)

\* dashboard_user.py: cookies.get(name, "") for the three cookie names
row_dashboard_user(user, admin, d) ==
    << user, COMMON_PASSWORD,
       Fmt(GetDefault(d, "vunet_session", <<>>)),
       Fmt(GetDefault(d, "X-VuNet-HTTP-Info", <<>>)),
       Fmt(GetDefault(d, "grafana_session_expiry", <<>>)) >>

\* user_cookies.py: cookies.get(name)
row_user_cookies(user, admin, d) ==
    << user, COMMON_PASSWORD,
       Fmt(Get(d, "vunet_session")),
       Fmt(Get(d, "X-VuNet-HTTP-Info")),
       Fmt(Get(d, "grafana_session_expiry")) >>

\* user_cookies1.py: the admin token, then cookies.get(name, '')
row_user_cookies1(user, admin, d) ==
    << user, COMMON_PASSWORD, admin,
       Fmt(GetDefault(d, "vunet_session", <<>>)),
       Fmt(GetDefault(d, "X-VuNet-HTTP-Info", <<>>)),
       Fmt(GetDefault(d, "grafana_session_expiry", <<>>)) >>

\* test.py: tokens.get(name), in the order access, refresh, id
row_test(user, admin, d) ==
    << user, COMMON_PASSWORD,
       Fmt(Get(d, "access_token")),
       Fmt(Get(d, "refresh_token")),
       Fmt(Get(d, "id_token")) >>

\* The row of new_users.py with the tokens in the order of test.py.
row_new_users_as_test(user, admin, d) ==
    << user, COMMON_PASSWORD,
       Fmt(Get(d, "access_token")),
       Fmt(Get(d, "refresh_token")),
       Fmt(Get(d, "id_token")) >>

\* new_users.py: vunet_session = access_token, X_VuNet_HTTP_Info = id_token,
\* grafana_session_expiry = refresh_token
row_new_users(user, admin, d) ==
    << user, COMMON_PASSWORD,
       Fmt(Get(d, "access_token")),
       Fmt(Get(d, "id_token")),
       Fmt(Get(d, "refresh_token")) >>

\* The fields of the row main writes for a user, by script.
RowFields(v, user, admin, d) ==
    CASE v = "dashboard_user" -> row_dashboard_user(user, admin, d)
      [] v = "user_cookies" -> row_user_cookies(user, admin, d)
      [] v = "user_cookies1" -> row_user_cookies1(user, admin, d)
      [] v = "test" -> row_test(user, admin, d)
      [] v = "new_users" -> row_new_users(user, admin, d)

\* The line written for a user (without its newline).
Row(v, user, admin, d) == JoinComma(RowFields(v, user, admin, d))

\* A row for every non-empty bundle, in every script.
WritesRow_any_bundle(v, ret) == TruthyDict(ret)

\* Whether main writes a row for the acquisition result ret.
WritesRow(v, ret) ==
    /\ TruthyDict(ret)
    /\ v = "user_cookies" =>
          /\ Truthy(Get(ret[1], "vunet_session"))
          /\ Truthy(Get(ret[1], "X-VuNet-HTTP-Info"))
          /\ Truthy(Get(ret[1], "grafana_session_expiry"))

\* The scripts that write the header line after opening the sink.
WritesHeader(v) == v \in {"dashboard_user", "new_users"}
\* Every script opens its sink with "w".
Appends_nowhere(v) == FALSE

\* open(..., "a") in user_cookies1.py, open(..., "w") elsewhere
Appends(v) == v = "user_cookies1"
\* The sink's content right after it is opened.
Opened(v, content) == (IF Appends(v) THEN content ELSE <<>>)
                      \o (IF WritesHeader(v) THEN <<HEADER>> ELSE <<>>)

\* main skips the user when create_user returns False (dashboard_user.py);
\* the other scripts' create_user returns nothing and main ignores it.
SkipsOnCreateFailure(v, status) == v = "dashboard_user" /\ status /= 201

\* get_admin_token without raise_for_status(): only a missing key raises.
admin_token_result_unchecked(status, body) ==
    IF "access_token" \in DOMAIN body THEN Some(body["access_token"]) ELSE None

\* get_admin_token: raise_for_status() raises on a 4xx/5xx status, and
\* response.json()["access_token"] raises when the key is absent.
admin_token_result(status, body) ==
    IF status >= 400 THEN None
    ELSE IF "access_token" \in DOMAIN body THEN Some(body["access_token"])
    ELSE None

\* A driver started without the with block is never stopped.
playwright_exit_leak(open) == open

\* Leaving "with sync_playwright() as p" stops the driver, which ends every
\* browser it launched.
playwright_exit(open) == FALSE

\* A walk that goes on whatever the first response carried.
no_redirect_url_unchecked(redirect_url) == FALSE

\* if not redirect_url: return None          (user_cookies.py, user_cookies1.py)
no_redirect_url(redirect_url) == ~Truthy(redirect_url)

\* The check of the final redirect left out, as in user_cookies.py.
no_final_redirect_unchecked(v, final_redirect) == FALSE

\* final_redirect = auth_response.headers.get("Location");
\* if not final_redirect: return None        (user_cookies1.py; the check is
\* commented out in user_cookies.py)
no_final_redirect(v, final_redirect) == v = "user_cookies1" /\ ~Truthy(final_redirect)

\* One cookie store kept for the whole run.
shared_cookie_store(earlier) == earlier

\* requests.Session() with a new MozillaCookieJar(), browser.new_context():
\* the attempt's cookie store starts empty, whatever earlier stores held.
new_cookie_store(earlier) == EmptyDict

\* A write that puts the line before the lines already written.
write_front(lines, line) == <<line>> \o lines

\* file.write(line)
write(lines, line) == Append(lines, line)

\* The page holds an action=" attribute.
HasActionAttribute(html) == \E p \in 1..Len(html) : HasAt(html, p, ACTION_OPEN)

\* ------------------------------------------------------------ endpoints
\* url names of the requests the scripts send
TOKEN_URL == "admin-token-endpoint"
ADMIN_URL == "admin-users-endpoint"
USER_TOKEN_URL == "user-token-endpoint"
USER_LOOKUP_URL == "admin-users-endpoint?username"
GROUPS_URL == "admin-groups-endpoint"
GROUP_PUT_URL == "admin-user-group-membership"
GROUP_NAME == "load_test"

\* LOGIN_URL of the two redirect-walk scripts
LOGIN_URL(v) == IF v = "user_cookies1" THEN BASE_URL \o LOGIN_PATH ELSE BASE_URL \o AUTH_PATH

\* Bodies the admin token endpoint may answer with.
AdminBodies == { [k \in {"access_token"} |-> ADMIN_TOKEN], [k \in {"error"} |-> <<"x">>] }
AdminStatuses == {200, 401}
CreateStatuses == {201, 409}
LookupStatuses == {200, 404}
\* Lists of user objects (their ids) a lookup may return.
LookupLists == { <<>>, <<"id1">>, <<"id1", "id2">> }
GroupsStatuses == {200, 403}
\* Group listings: sequences of [name, id].
GroupLists == { <<>>,
                << [name |-> "other", id |-> "g0"] >>,
                << [name |-> "other", id |-> "g0"], [name |-> GROUP_NAME, id |-> "g1"] >>,
                << [name |-> GROUP_NAME, id |-> "g1"], [name |-> GROUP_NAME, id |-> "g2"] >> }
PutStatuses == {204, 500}
GrantStatuses == {200, 401}

\* Content the sink file may hold before a run.
OLD_ROW == <<"l","o","a","d","_","u","s","e","r","_","7",",","P","a","s","s","w","o","r","d","1","2","3","!",",","o","l","d">>
PriorContents == { <<>>, <<OLD_ROW>> }

\* The id of the first group of the listing, whatever its name.
any_group_id(groups, name) == IF groups = <<>> THEN None ELSE Some(groups[1].id)

\* next((group['id'] for group in groups if group['name'] == group_name), None)
RECURSIVE first_group_id(_, _)
first_group_id(groups, name) ==
    IF groups = <<>> THEN None
    ELSE IF groups[1].name = name THEN Some(groups[1].id)
    ELSE first_group_id(Tail(groups), name)

\* --------------------------------------------------------------- state
VARIABLES
    variant,       \* which script runs
    num_users,     \* the CLI argument
    pc,            \* position of the run
    i,             \* loop iterations completed
    admin_token,   \* None until get_admin_token returned
    admin_resp,    \* the admin token endpoint's answer, once given
    sink,          \* "unopened", "open" or "closed"
    file,          \* the sink file's lines
    file0,         \* the sink file's lines before the run
    username,      \* this iteration's user
    status,        \* create_user's response status (0 before the request)
    user_id,       \* get_user_id's result
    jar,           \* the session's cookie jar / the browser context's cookies
    browser,       \* a launched browser is open
    redirect_url,  \* Location of the first response of the walk
    login_html,    \* the login page
    form_action,   \* the extracted form target
    ret,           \* what the session acquirer returned
    admin_reqs,    \* this iteration's admin API requests, in order
    reqs,          \* this iteration's session acquisition requests, in order
    set_cookies,   \* the cookies the responses of this iteration's attempt set
    rows,          \* for each data row written: its iteration, its inputs and
                   \* the session cookies of its bundle
    failed,        \* this iteration's user met a failure
    failures,      \* users that met a failure so far
    n_admin,       \* admin token requests sent
    n_create       \* create-user requests sent

vars == << variant, num_users, pc, i, admin_token, admin_resp, sink, file, file0,
           username, status, user_id, jar, browser, redirect_url, login_html,
           form_action, ret, admin_reqs, reqs, set_cookies, rows, failed, failures,
           n_admin, n_create >>

run_vars == << variant, num_users, file0 >>
admin_vars == << admin_token, admin_resp, n_admin >>
walk_vars == << redirect_url, login_html, form_action >>
iter_vars == << username, status, user_id, failed, admin_reqs, reqs >>
acq_vars == << jar, browser, redirect_url, login_html, form_action, ret, set_cookies >>

\* What a response carried of the things its caller reads: the status (0
\* where the caller does not read it), whether it has a Location header, and
\* whether its body holds what the caller looks for (a user, the group, the
\* action attribute).
Resp(st, loc, body) == [status |-> st, location |-> loc, body |-> body]
\* The request raised: there is no response.
NoResp == Resp(-1, FALSE, FALSE)

\* A request sent, with its bearer token and the response it got.
Req(m, u, b, r) == [method |-> m, url |-> u, bearer |-> b, resp |-> r]

\* The session cookies of a bundle.
SessionCookies(d) == Restrict(d, DOMAIN d \cap SessionCookieNames)

\* The cookies handed out to the latest user of the run that got a row: what
\* a cookie store kept from one attempt to the next would still hold.
EarlierCookies == IF rows = <<>> THEN EmptyDict ELSE rows[Len(rows)].cookies

\* The listing holds a group of that name.
HasGroup(groups, name) == \E k \in 1..Len(groups) : groups[k].name = name

Init ==
    /\ variant \in Variants
    /\ num_users \in 0..MaxUsers
    /\ file0 \in PriorContents
    /\ file = file0
    /\ pc = "start"
    /\ i = 0
    /\ admin_token = None
    /\ admin_resp = None
    /\ sink = "unopened"
    /\ username = <<>>
    /\ status = 0
    /\ user_id = None
    /\ jar = EmptyDict
    /\ browser = FALSE
    /\ redirect_url = None
    /\ login_html = <<>>
    /\ form_action = None
    /\ ret = None
    /\ reqs = <<>>
    /\ set_cookies = EmptyDict
    /\ rows = <<>>
    /\ failed = FALSE
    /\ failures = 0
    /\ n_admin = 0
    /\ n_create = 0
    /\ admin_reqs = <<>>

\* ------------------------------------------------------------ main: setup
\* admin_token = get_admin_token(); an exception here leaves main
get_admin_token ==
    /\ pc = "start"
    /\ \E st \in AdminStatuses, body \in AdminBodies :
          /\ admin_resp' = Some([status |-> st, body |-> body])
          /\ admin_token' = admin_token_result(st, body)
          /\ pc' = IF admin_token_result(st, body) = None THEN "aborted" ELSE "open"
    /\ n_admin' = n_admin + 1
    /\ UNCHANGED << run_vars, i, sink, file, iter_vars, acq_vars, rows, failures, n_create >>

\* with open(...) as file, and the header where the script writes one
main_open ==
    /\ pc = "open"
    /\ sink' = "open"
    /\ file' = Opened(variant, file)
    /\ pc' = "loop"
    /\ UNCHANGED << run_vars, admin_vars, i, iter_vars, acq_vars, rows, failures, n_create >>

\* A loop that fetches the admin token again at the top of every iteration.
main_next_user_refetch ==
    /\ pc = "loop"
    /\ i < num_users
    /\ \E r \in 1..RandMax : username' = generate_username(r)
    /\ pc' = "create"
    /\ n_admin' = n_admin + 1
    /\ UNCHANGED << run_vars, admin_token, admin_resp, i, sink, file, status, user_id, failed,
                    admin_reqs, reqs, acq_vars, rows, failures, n_create >>

\* for _ in range(num_users): username = generate_username()
main_next_user ==
    /\ pc = "loop"
    /\ i < num_users
    /\ \E r \in 1..RandMax : username' = generate_username(r)
    /\ pc' = "create"
    /\ UNCHANGED << run_vars, admin_vars, i, sink, file, status, user_id, failed,
                    admin_reqs, reqs, acq_vars, rows, failures, n_create >>

\* The loop is exhausted: the with block closes the sink and main returns.
main_exit ==
    /\ pc = "loop"
    /\ i = num_users
    /\ pc' = "done"
    /\ sink' = "closed"
    /\ UNCHANGED << run_vars, admin_vars, i, file, iter_vars, acq_vars, rows, failures,
                    n_create >>

\* Where main goes after create_user, by script.
AfterCreate(v) == CASE v = "dashboard_user" -> "launch"
                    [] v = "user_cookies" -> "get_login"
                    [] v = "user_cookies1" -> "get_user_id"
                    [] v \in {"test", "new_users"} -> "token"

\* The end of an iteration: the loop's locals die.
EndIteration(fail) ==
    /\ i' = i + 1
    /\ pc' = "loop"
    /\ failures' = failures + (IF fail THEN 1 ELSE 0)
    /\ failed' = FALSE
    /\ username' = <<>>
    /\ status' = 0
    /\ user_id' = None
    /\ admin_reqs' = <<>>
    /\ reqs' = <<>>

\* An exception leaves main: the with block closes the sink on the way out.
Raise ==
    /\ pc' = "crashed"
    /\ sink' = "closed"
    /\ failed' = TRUE
    /\ failures' = failures + 1

\* create_user(admin_token, username), and main's use of its result
create_user ==
    /\ pc = "create"
    /\ n_create' = n_create + 1
    /\ \E st \in CreateStatuses :
          IF SkipsOnCreateFailure(variant, st)
          THEN /\ EndIteration(TRUE)
          ELSE /\ status' = st
               /\ failed' = (st /= 201)
               /\ admin_reqs' = Append(admin_reqs, Req("POST", ADMIN_URL, admin_token,
                                                       Resp(st, FALSE, FALSE)))
               /\ pc' = AfterCreate(variant)
               /\ UNCHANGED << i, failures, username, user_id, reqs >>
    /\ UNCHANGED << run_vars, admin_vars, sink, file, acq_vars, rows >>

\* ------------------------------------------- user_cookies1.py: group step
\* user_id = get_user_id(access_token, username); if user_id: ...
get_user_id ==
    /\ pc = "get_user_id"
    /\ \E st \in LookupStatuses, list \in LookupLists :
          LET id == IF st = 200 /\ list /= <<>> THEN Some(list[1]) ELSE None
          IN  /\ user_id' = id
              /\ pc' = IF id /= None THEN "add_group" ELSE "get_login"
              /\ admin_reqs' = Append(admin_reqs, Req("GET", USER_LOOKUP_URL, admin_token,
                                                      Resp(st, FALSE, list /= <<>>)))
    /\ UNCHANGED << run_vars, admin_vars, i, sink, file, username, status, failed, reqs,
                    acq_vars, rows, failures, n_create >>

\* add_user_to_group(access_token, user_id)
add_user_to_group ==
    /\ pc = "add_group"
    /\ \E st \in GroupsStatuses, groups \in GroupLists, put \in PutStatuses :
          LET listing == Req("GET", GROUPS_URL, admin_token,
                             Resp(st, FALSE, HasGroup(groups, GROUP_NAME)))
          IN  IF st = 200 /\ first_group_id(groups, GROUP_NAME) /= None
              THEN admin_reqs' = admin_reqs \o << listing,
                                                  Req("PUT", GROUP_PUT_URL, admin_token,
                                                      Resp(put, FALSE, FALSE)) >>
              ELSE admin_reqs' = Append(admin_reqs, listing)
    /\ pc' = "get_login"
    /\ UNCHANGED << run_vars, admin_vars, i, sink, file, username, status, user_id, failed,
                    reqs, acq_vars, rows, failures, n_create >>

\* ------------------------------------- extract_cookies: the redirect walk
\* The function returns r: its locals (the session, the page) die.
WalkReturns(r) ==
    /\ ret' = r
    /\ pc' = "record"
    /\ jar' = EmptyDict
    /\ redirect_url' = None
    /\ login_html' = <<>>
    /\ form_action' = None

\* session = requests.Session(); session.cookies = MozillaCookieJar();
\* response = session.get(LOGIN_URL, allow_redirects=False)
extract_get_login ==
    /\ pc = "get_login"
    /\ \E loc \in Locations, sc \in PreLoginCookies :
          /\ reqs' = Append(reqs, Req("GET", LOGIN_URL(variant), None,
                                      Resp(0, loc /= None, FALSE)))
          /\ set_cookies' = sc
          /\ IF no_redirect_url(loc)
             THEN /\ WalkReturns(None)
                  /\ failed' = TRUE
             ELSE /\ redirect_url' = loc
                  /\ jar' = Merge(new_cookie_store(EarlierCookies), sc)
                  /\ pc' = "get_redirect"
                  /\ UNCHANGED << ret, login_html, form_action, failed >>
    /\ user_id' = None
    /\ admin_reqs' = <<>>
    /\ UNCHANGED << run_vars, admin_vars, i, sink, file, username, status, browser,
                    rows, failures, n_create >>

\* login_page = session.get(f"{BASE_URL}{redirect_url}"); the form action
extract_get_redirect ==
    /\ pc = "get_redirect"
    /\ IF ~Answers(redirect_target(redirect_url[1]))
       THEN /\ reqs' = Append(reqs, Req("GET", redirect_target(redirect_url[1]), None, NoResp))
            /\ Raise
            /\ UNCHANGED << jar, walk_vars, ret, set_cookies >>
       ELSE /\ \E html \in LoginPages, sc \in PreLoginCookies :
                  /\ reqs' = Append(reqs, Req("GET", redirect_target(redirect_url[1]), None,
                                              Resp(0, FALSE, HasActionAttribute(html))))
                  /\ set_cookies' = Merge(set_cookies, sc)
                  /\ IF ~Truthy(re_search(html))
                     THEN /\ WalkReturns(None)
                          /\ failed' = TRUE
                     ELSE /\ login_html' = html
                          /\ form_action' = re_search(html)
                          /\ jar' = Merge(jar, sc)
                          /\ pc' = "post"
                          /\ UNCHANGED << ret, redirect_url, failed >>
            /\ UNCHANGED << sink, failures >>
    /\ UNCHANGED << run_vars, admin_vars, i, file, username, status, user_id, admin_reqs,
                    browser, rows, n_create >>

\* auth_response = session.post(form_action, ..., allow_redirects=False);
\* user_cookies1.py returns None when the response has no Location
extract_post ==
    /\ pc = "post"
    /\ IF ~Answers(form_action[1])
       THEN /\ reqs' = Append(reqs, Req("POST", form_action[1], None, NoResp))
            /\ Raise
            /\ UNCHANGED << jar, walk_vars, ret, set_cookies >>
       ELSE /\ \E loc \in Locations, sc \in SetCookieChoices :
                  /\ reqs' = Append(reqs, Req("POST", form_action[1], None,
                                              Resp(0, loc /= None, FALSE)))
                  /\ set_cookies' = Merge(set_cookies, sc)
                  /\ IF no_final_redirect(variant, loc)
                     THEN /\ WalkReturns(None)
                          /\ failed' = TRUE
                     ELSE /\ jar' = Merge(jar, sc)
                          /\ login_html' = <<>>
                          /\ pc' = "reget"
                          /\ UNCHANGED << ret, redirect_url, form_action, failed >>
            /\ UNCHANGED << sink, failures >>
    /\ UNCHANGED << run_vars, admin_vars, i, file, username, status, user_id, admin_reqs,
                    browser, rows, n_create >>

\* session.get(LOGIN_URL); cookies_dict = {cookie.name: cookie.value ...}
extract_reget ==
    /\ pc = "reget"
    /\ reqs' = Append(reqs, Req("GET", LOGIN_URL(variant), None, Resp(0, FALSE, FALSE)))
    /\ \E sc \in SetCookieChoices :
          /\ WalkReturns(Some(Merge(jar, sc)))
          /\ set_cookies' = Merge(set_cookies, sc)
    /\ UNCHANGED << run_vars, admin_vars, i, sink, file, username, status, user_id, failed,
                    admin_reqs, browser, rows, failures, n_create >>

\* --------------------------- login_vusmartmaps_get_cookies: browser login
\* browser = p.chromium.launch(); context = browser.new_context(); new_page()
login_launch ==
    /\ pc = "launch"
    /\ browser' = TRUE
    /\ jar' = new_cookie_store(EarlierCookies)
    /\ set_cookies' = EmptyDict
    /\ pc' = "goto"
    /\ admin_reqs' = <<>>
    /\ UNCHANGED << run_vars, admin_vars, i, sink, file, username, status, user_id, failed,
                    reqs, walk_vars, ret, rows, failures, n_create >>

\* An exception inside the with block: nothing catches it, the block is left
\* and the exception leaves main.
LoginRaises ==
    /\ Raise
    /\ browser' = playwright_exit(browser)
    /\ UNCHANGED << jar, ret, set_cookies >>

\* page.goto(f"{BASE_URL}/vui/login", wait_until="networkidle")
login_goto ==
    /\ pc = "goto"
    /\ \/ /\ \E sc \in PreLoginCookies : /\ jar' = Merge(jar, sc)
                                          /\ set_cookies' = Merge(set_cookies, sc)
          /\ reqs' = Append(reqs, Req("GET", BASE_URL \o BROWSER_LOGIN_PATH, None,
                                      Resp(0, FALSE, FALSE)))
          /\ pc' = "fill"
          /\ UNCHANGED << browser, ret, sink, failed, failures >>
       \/ /\ LoginRaises
          /\ reqs' = Append(reqs, Req("GET", BASE_URL \o BROWSER_LOGIN_PATH, None, NoResp))
    /\ UNCHANGED << run_vars, admin_vars, i, file, username, status, user_id, admin_reqs,
                    walk_vars, rows, n_create >>

\* page.fill("input[name=username]", ...); page.fill("input[name=password]", ...)
login_fill ==
    /\ pc = "fill"
    /\ \/ /\ pc' = "click"
          /\ UNCHANGED << browser, jar, ret, set_cookies, sink, failed, failures >>
       \/ LoginRaises
    /\ UNCHANGED << run_vars, admin_vars, i, file, username, status, user_id, admin_reqs,
                    reqs, walk_vars, rows, n_create >>

\* page.click("button[type=submit]")
login_click ==
    /\ pc = "click"
    /\ \/ /\ \E sc \in SetCookieChoices : /\ jar' = Merge(jar, sc)
                                           /\ set_cookies' = Merge(set_cookies, sc)
          /\ pc' = "wait"
          /\ UNCHANGED << browser, ret, sink, failed, failures >>
       \/ LoginRaises
    /\ UNCHANGED << run_vars, admin_vars, i, file, username, status, user_id, admin_reqs,
                    reqs, walk_vars, rows, n_create >>

\* page.wait_for_url(..., timeout=20000): on success the cookies are read and
\* the browser closed; on any exception the browser is closed and None returned
login_wait ==
    /\ pc = "wait"
    /\ \/ /\ ret' = Some(jar)
          /\ UNCHANGED failed
       \/ /\ ret' = None
          /\ failed' = TRUE
    /\ browser' = playwright_exit(FALSE)
    /\ jar' = EmptyDict
    /\ pc' = "record"
    /\ UNCHANGED << run_vars, admin_vars, i, sink, file, username, status, user_id,
                    admin_reqs, reqs, set_cookies, walk_vars, rows, failures, n_create >>

\* ------------------------------------------ get_user_tokens: token grant
get_user_tokens ==
    /\ pc = "token"
    /\ \/ \E body \in TokenBodies :
             /\ reqs' = Append(reqs, Req("POST", USER_TOKEN_URL, None, Resp(200, FALSE, FALSE)))
             /\ ret' = Some(body)
             /\ UNCHANGED failed
       \/ \E st \in GrantStatuses \ {200} :
             /\ reqs' = Append(reqs, Req("POST", USER_TOKEN_URL, None, Resp(st, FALSE, FALSE)))
             /\ ret' = None
             /\ failed' = TRUE
    /\ pc' = "record"
    /\ admin_reqs' = <<>>
    /\ UNCHANGED << run_vars, admin_vars, i, sink, file, username, status, user_id, jar,
                    browser, walk_vars, set_cookies, rows, failures, n_create >>

\* ----------------------------------------------- main: the row, or a skip
main_record ==
    /\ pc = "record"
    /\ IF WritesRow(variant, ret)
       THEN /\ file' = write(file, Row(variant, username, admin_token[1], ret[1]))
            /\ rows' = Append(rows, [iter |-> i + 1, user |-> username, status |-> status,
                                     acquired |-> ret /= None,
                                     cookies |-> SessionCookies(ret[1])])
       ELSE UNCHANGED << file, rows >>
    /\ EndIteration(failed)
    /\ ret' = None
    /\ set_cookies' = EmptyDict
    /\ UNCHANGED << run_vars, admin_vars, sink, jar, browser, walk_vars, n_create >>

Next ==
    \/ get_admin_token
    \/ main_open
    \/ main_next_user
    \/ main_exit
    \/ create_user
    \/ get_user_id
    \/ add_user_to_group
    \/ extract_get_login
    \/ extract_get_redirect
    \/ extract_post
    \/ extract_reget
    \/ login_launch
    \/ login_goto
    \/ login_fill
    \/ login_click
    \/ login_wait
    \/ get_user_tokens
    \/ main_record

Spec == Init /\ [][Next]_vars

\* ------------------------------------ the form-action scan on its own
\* Pieces a login page is made of, and the pages of at most MaxSegs pieces.
FORM_A == ACTION_OPEN \o SEG_A \o QUOTE
HtmlSegments == { FORM_A, ACTION_OPEN, QUOTE, SEG_B, SEG_CLOSE }

RECURSIVE Concat(_)
Concat(ss) == IF ss = <<>> THEN <<>> ELSE ss[1] \o Concat(Tail(ss))

Htmls == { Concat(ss) : ss \in UNION { [1..n -> HtmlSegments] : n \in 0..MaxSegs } }

InitSearch ==
    /\ variant = "user_cookies"
    /\ num_users = 0
    /\ file0 = <<>>
    /\ file = <<>>
    /\ pc = "search"
    /\ i = 0
    /\ admin_token = None
    /\ admin_resp = None
    /\ sink = "unopened"
    /\ username = <<>>
    /\ status = 0
    /\ user_id = None
    /\ jar = EmptyDict
    /\ browser = FALSE
    /\ redirect_url = None
    /\ login_html \in Htmls
    /\ form_action = None
    /\ ret = None
    /\ reqs = <<>>
    /\ set_cookies = EmptyDict
    /\ rows = <<>>
    /\ failed = FALSE
    /\ failures = 0
    /\ n_admin = 0
    /\ n_create = 0
    /\ admin_reqs = <<>>

\* match = re.search(...); form_action = match.group(1) if match else None
search_form_action ==
    /\ pc = "search"
    /\ form_action' = re_search(login_html)
    /\ pc' = "searched"
    /\ UNCHANGED << run_vars, admin_vars, i, sink, file, iter_vars, jar, browser,
                    redirect_url, login_html, ret, set_cookies, rows, failures, n_create >>

NextSearch == search_form_action

SpecSearch == InitSearch /\ [][NextSearch]_vars

\* ======================================================== the claims
\* The lines the sink holds before this run's data rows.
SinkPrefix == IF sink = "unopened" THEN file0 ELSE Opened(variant, file0)
\* The data rows this run wrote.
DataRows == SubSeq(file, Len(SinkPrefix) + 1, Len(file))

\* Index of the first "," at or after p, or 0
RECURSIVE NextComma(_, _)
NextComma(s, p) == IF p > Len(s) THEN 0
                   ELSE IF s[p] = "," THEN p
                   ELSE NextComma(s, p + 1)

\* line.split(",")
RECURSIVE SplitComma(_)
SplitComma(s) == IF NextComma(s, 1) = 0 THEN <<s>>
                 ELSE <<SubSeq(s, 1, NextComma(s, 1) - 1)>>
                      \o SplitComma(SubSeq(s, NextComma(s, 1) + 1, Len(s)))

\* The number of comma-separated fields of a line: its commas, plus one.
FieldCount(s) == Cardinality({ p \in 1..Len(s) : s[p] = "," }) + 1

\* A session acquisition was attempted in this iteration.
AcquisitionAttempted == reqs /= <<>> \/ browser \/ pc \in {"goto", "fill", "click", "wait", "record"}

\* C1: a run of main(N) writes at most N data rows, at most one per loop
\* iteration, and a row only for a user whose create_user succeeded (201) and
\* for whom a bundle was returned.
C1_RowsOnlyForProvisionedUsers ==
    /\ Len(DataRows) = Len(rows)
    /\ Len(DataRows) <= num_users
    /\ Len(DataRows) <= i
    /\ \A k \in 1..Len(rows) : rows[k].status = 201 /\ rows[k].acquired

\* C2: when the admin-token request returns a non-success status or its JSON
\* lacks access_token, the run aborts before the loop: no create-user request,
\* no session acquisition, no row, and the sink file is never opened.
AdminTokenFailed ==
    /\ admin_resp /= None
    /\ \/ admin_resp[1].status /= 200
       \/ "access_token" \notin DOMAIN admin_resp[1].body

C2_AdminFailureAborts ==
    AdminTokenFailed =>
        /\ pc = "aborted"
        /\ n_create = 0
        /\ admin_reqs = <<>>
        /\ ~AcquisitionAttempted
        /\ sink = "unopened"
        /\ file = file0
        /\ rows = <<>>

C2_Witness ==
    /\ pc = "aborted"
    /\ admin_resp[1].status = 401
    /\ file0 /= <<>>

\* C3: in every script, when account creation returns a status other than
\* 201, no session acquisition is attempted for that user and no row is
\* written for it.
C3_CreateFailureSkipsUser ==
    /\ (status /= 0 /\ status /= 201) => ~AcquisitionAttempted
    /\ \A k \in 1..Len(rows) : rows[k].status = 201

\* C4: a per-user failure never leaves the run loop, and when the run is done
\* the number of data rows is N minus the number of users that met a failure.
C4_FailuresStayInLoop ==
    /\ pc /= "crashed"
    /\ pc = "done" => Len(DataRows) = num_users - failures

\* C5: a browser launched by a login attempt is open only inside
\* login_vusmartmaps_get_cookies; it is closed when the function returns or
\* raises, so no iteration starts with a browser open.
C5_BrowserClosedOnEveryExit ==
    browser => pc \in {"goto", "fill", "click", "wait"}

\* A login attempt ended by an exception, with the browser closed.
C5_Witness ==
    /\ variant = "dashboard_user"
    /\ pc = "crashed"
    /\ reqs /= <<>>
    /\ ~browser

\* The token-grant scripts, and the three tokens of a bundle.
TokenVariants == {"test", "new_users"}
ThreeTokens == {"access_token", "refresh_token", "id_token"}

\* main is about to record a token bundle that holds all three tokens.
RecordsThreeTokens ==
    /\ pc = "record"
    /\ variant \in TokenVariants
    /\ ret /= None
    /\ ThreeTokens \subseteq DOMAIN ret[1]

\* C6 (as stated): in every token-grant script the row written for a bundle
\* {access_token: a, refresh_token: r, id_token: i} is username,password,a,r,i.
C6_TokenOrderEveryScript ==
    [][RecordsThreeTokens =>
          file' = Append(file, JoinComma(<< username, COMMON_PASSWORD,
                                            ret[1]["access_token"],
                                            ret[1]["refresh_token"],
                                            ret[1]["id_token"] >>))]_vars

\* C6 (amended): the row written for a bundle {access_token: a,
\* refresh_token: r, id_token: i} is username,password,a,r,i in test.py and
\* username,password,a,i,r in new_users.py.
C6_TokenOrderByScript ==
    [][RecordsThreeTokens =>
          file' = Append(file, JoinComma(
                     IF variant = "test"
                     THEN << username, COMMON_PASSWORD, ret[1]["access_token"],
                             ret[1]["refresh_token"], ret[1]["id_token"] >>
                     ELSE << username, COMMON_PASSWORD, ret[1]["access_token"],
                             ret[1]["id_token"], ret[1]["refresh_token"] >>))]_vars

\* new_users.py wrote the row of a full bundle for load_user_1.
C6_Witness ==
    /\ variant = "new_users"
    /\ Len(DataRows) >= 1
    /\ DataRows[1] = JoinComma(<< generate_username(1), COMMON_PASSWORD,
                                  <<"a">>, <<"i">>, <<"r">> >>)

\* The optional columns of a row, by script, and the columns before them.
OptionalKeys(v) ==
    CASE v \in {"dashboard_user", "user_cookies", "user_cookies1"} ->
           << "vunet_session", "X-VuNet-HTTP-Info", "grafana_session_expiry" >>
      [] v = "test" -> << "access_token", "refresh_token", "id_token" >>
      [] v = "new_users" -> << "access_token", "id_token", "refresh_token" >>
FixedColumns(v) == IF v = "user_cookies1" THEN 3 ELSE 2

\* C7: when a bundle lacks an optional field, the row written carries an
\* empty string in that field's column, the other fields stay in their
\* columns, and no field of a row is the text None.
C7_MissingFieldIsEmpty ==
    [][(pc = "record" /\ Len(file') = Len(file) + 1) =>
          LET f == SplitComma(file'[Len(file')])
              keys == OptionalKeys(variant)
              off == FixedColumns(variant)
          IN  /\ Len(f) = off + 3
              /\ \A p \in 1..3 :
                    f[off + p] = IF keys[p] \in DOMAIN ret[1] THEN ret[1][keys[p]] ELSE <<>>
              /\ \A p \in 1..Len(f) : f[p] /= NoneText]_vars

\* C8: all data rows written so far have the same number of comma-separated
\* fields, and where the script writes a header that number is the header's
\* field count, 5.
C8_ConstantFieldCount ==
    /\ \A k \in 1..Len(DataRows) : FieldCount(DataRows[k]) = FieldCount(DataRows[1])
    /\ (WritesHeader(variant) /\ sink /= "unopened") =>
          /\ file[1] = HEADER
          /\ FieldCount(file[1]) = 5
          /\ \A k \in 1..Len(DataRows) : FieldCount(DataRows[k]) = FieldCount(file[1])

\* dashboard_user.py wrote two different rows under its header, one of them
\* for a bundle without grafana_session_expiry.
C8_Witness ==
    /\ variant = "dashboard_user"
    /\ Len(DataRows) = 2
    /\ DataRows[1] /= DataRows[2]
    /\ \E k \in 1..2 : /\ SplitComma(DataRows[k])[3] /= <<>>
                       /\ SplitComma(DataRows[k])[5] = <<>>

\* A redirect target resolved against a base: an absolute target is kept.
UrlJoin(base, loc) == IF HasScheme(loc) THEN loc ELSE base \o loc

\* C9: the second GET of the redirect walk targets the Location resolved
\* against the base origin: base + Location for a relative Location, the
\* Location unchanged for an absolute one.
C9_RedirectResolvedAgainstBase ==
    (/\ variant \in {"user_cookies", "user_cookies1"}
     /\ redirect_url /= None
     /\ Len(reqs) >= 2)
    => reqs[2].url = UrlJoin(BASE_URL, redirect_url[1])

\* An occurrence of action="v" at p: the literal, a value v of one or more
\* characters other than '"', and the closing '"'.
NoQuote(v) == \A k \in 1..Len(v) : v[k] /= "\""
OccursAt(html, p, v) == /\ v /= <<>>
                        /\ NoQuote(v)
                        /\ HasAt(html, p, ACTION_OPEN \o v \o QUOTE)
\* <<p, e>>: an occurrence at p whose value ends at e
Occurrences(html) ==
    { pe \in { p \in 1..Len(html) : HasAt(html, p, ACTION_OPEN) } \X (1..Len(html)) :
         /\ pe[2] >= pe[1] + Len(ACTION_OPEN)
         /\ OccursAt(html, pe[1], SubSeq(html, pe[1] + Len(ACTION_OPEN), pe[2])) }

\* C10: the extracted form action is the value of the first action="..."
\* occurrence of the page, however many occurrences follow; there is none
\* exactly when the page has no occurrence.
C10_FirstActionWins ==
    pc = "searched" =>
        IF Occurrences(login_html) = {}
        THEN form_action = None
        ELSE \E pe \in Occurrences(login_html) :
                /\ \A qe \in Occurrences(login_html) : pe[1] <= qe[1]
                /\ form_action = Some(SubSeq(login_html, pe[1] + Len(ACTION_OPEN), pe[2]))

\* The page action="/a">action="/b" was scanned and gave /a.
C10_Witness ==
    /\ pc = "searched"
    /\ login_html = FORM_A \o SEG_CLOSE \o ACTION_OPEN \o SEG_B \o QUOTE
    /\ form_action = Some(SEG_A)

\* The scripts that acquire the session by the redirect walk (Strategy A).
WalkVariants == {"user_cookies", "user_cookies1"}

\* C11: in the redirect walk a credential POST is issued only after the first
\* response carried a Location and the login page an action attribute, both
\* in this attempt; when the first response has no Location the attempt
\* returns failure with the login GET as its only request, and when the login
\* page has no action attribute it returns failure after the two GETs, with
\* no POST and no final re-GET.
C11_PostNeedsLocationAndAction ==
    variant \in WalkVariants =>
        /\ \A k \in 1..Len(reqs) :
              reqs[k].method = "POST" =>
                 /\ k = 3
                 /\ reqs[1].resp.location
                 /\ reqs[2].resp.body
        /\ pc = "post" => Truthy(redirect_url) /\ Truthy(form_action)
        /\ (Len(reqs) >= 1 /\ ~reqs[1].resp.location) =>
              /\ reqs = << Req("GET", LOGIN_URL(variant), None, Resp(0, FALSE, FALSE)) >>
              /\ pc = "record"
              /\ ret = None
        /\ (Len(reqs) >= 2 /\ reqs[2].resp.status >= 0 /\ ~reqs[2].resp.body) =>
              /\ Len(reqs) = 2
              /\ reqs[2].method = "GET"
              /\ pc = "record"
              /\ ret = None

\* user_cookies.py got a Location, then a login page without an action
\* attribute, and returned failure after the two GETs.
C11_Witness ==
    /\ variant = "user_cookies"
    /\ pc = "record"
    /\ Len(reqs) = 2
    /\ reqs[1].resp.location
    /\ reqs[2].resp.status >= 0
    /\ ~reqs[2].resp.body
    /\ ret = None

\* The scripts whose bundle is a set of cookies.
CookieVariants == {"dashboard_user", "user_cookies", "user_cookies1"}
\* Every cookie of d was set, with that value, by a response of the latest
\* attempt.
SetInThisAttempt(d) ==
    \A k \in DOMAIN d : k \in DOMAIN set_cookies /\ d[k] = set_cookies[k]

\* C12: each session acquisition attempt starts from an empty cookie store,
\* so the store during an attempt and the bundle it returns hold only
\* cookies that responses of that same attempt set, whatever the earlier
\* users of the run received.
C12_NoCookieLeakAcrossUsers ==
    variant \in CookieVariants =>
        /\ pc = "goto" => jar = EmptyDict
        /\ pc \in {"goto", "fill", "click", "wait", "get_redirect", "post", "reget"} =>
              SetInThisAttempt(jar)
        /\ (pc = "record" /\ ret /= None) => SetInThisAttempt(ret[1])

\* dashboard_user.py wrote the first user's row with the cookie
\* vunet_session, and the second user's bundle holds no vunet_session.
C12_Witness ==
    /\ variant = "dashboard_user"
    /\ i = 1
    /\ Len(DataRows) = 1
    /\ SplitComma(DataRows[1])[3] = <<"s">>
    /\ pc = "record"
    /\ ret /= None
    /\ DOMAIN ret[1] = {"AUTH_SESSION_ID"}

\* C13: the admin token is requested exactly once per run, before the first
\* iteration; it is the token the one response carried, and it is the bearer
\* of every create-user, user-lookup and group request of every iteration,
\* whatever the earlier iterations' outcomes.
C13_AdminTokenFetchedOnce ==
    /\ n_admin <= 1
    /\ pc /= "start" => n_admin = 1
    /\ (i > 0 \/ n_create > 0 \/ admin_reqs /= <<>> \/ pc \in {"loop", "create"}) =>
          /\ n_admin = 1
          /\ admin_resp /= None
          /\ admin_token = Some(admin_resp[1].body["access_token"])
    /\ \A k \in 1..Len(admin_reqs) : admin_reqs[k].bearer = admin_token

\* user_cookies1.py is in its second iteration after a first one that met a
\* failure, and has sent the create, lookup and group requests.
C13_Witness ==
    /\ variant = "user_cookies1"
    /\ i = 1
    /\ failures = 1
    /\ Len(admin_reqs) = 4
    /\ admin_reqs[4].method = "PUT"
    /\ n_admin = 1

\* The line's first field is the user.
RowOf(line, user) == StartsWith(line, user \o <<",">>)

\* The data rows are in processing order: one row per writing iteration,
\* carrying that iteration's user, the iterations strictly increasing.
RowsInLoopOrder ==
    /\ Len(DataRows) = Len(rows)
    /\ \A k \in 1..Len(rows) :
          /\ RowOf(DataRows[k], rows[k].user)
          /\ rows[k].iter <= i
          /\ \A j \in 1..(k - 1) : rows[j].iter < rows[k].iter

\* A step leaves the data rows as they are or appends one row, for the user
\* of the iteration that ends with the step.
RowsOnlyAppended ==
    \/ file' = file
    \/ DataRows' = DataRows
    \/ /\ pc = "record"
       /\ ret /= None
       /\ Len(DataRows') = Len(DataRows) + 1
       /\ SubSeq(DataRows', 1, Len(DataRows)) = DataRows
       /\ RowOf(DataRows'[Len(DataRows')], username)
       /\ i' = i + 1

\* C14: within a run the sink only grows by one appended row at a time, a
\* row once written is never modified or reordered, and the k-th data row
\* belongs to the k-th user, in loop order, for whom main reached the write.
C14_RowsInProcessingOrder == []RowsInLoopOrder /\ [][RowsOnlyAppended]_vars

\* The first user of the run got no row and the second one did: the first
\* data row belongs to the second iteration.
C14_Witness ==
    /\ variant = "user_cookies"
    /\ i = 2
    /\ Len(DataRows) = 1
    /\ rows[1].iter = 2
    /\ SplitComma(DataRows[1])[1] = generate_username(2)

\* The lookup of this iteration resolved the user: 200 and a non-empty list.
LookupResolved ==
    /\ Len(admin_reqs) >= 2
    /\ admin_reqs[2].url = USER_LOOKUP_URL
    /\ admin_reqs[2].resp.status = 200
    /\ admin_reqs[2].resp.body
\* The groups listing of this iteration answered 200 and holds the group.
GroupListed ==
    /\ Len(admin_reqs) >= 3
    /\ admin_reqs[3].url = GROUPS_URL
    /\ admin_reqs[3].resp.status = 200
    /\ admin_reqs[3].resp.body

\* C15: in user_cookies1.py a membership PUT is issued only after the lookup
\* answered 200 with a non-empty list (whose first element is the user ID)
\* and the groups listing answered 200 and holds the group load_test; when
\* the user ID is not resolved or the group is missing, no PUT is issued,
\* nothing is raised and the iteration stands before its session acquisition.
C15_PutOnlyForResolvedUserAndGroup ==
    variant = "user_cookies1" =>
        /\ \A k \in 1..Len(admin_reqs) :
              admin_reqs[k].method = "PUT" =>
                 /\ k = 4
                 /\ LookupResolved
                 /\ GroupListed
        /\ pc = "add_group" => LookupResolved /\ user_id = Some("id1")
        /\ (Len(admin_reqs) >= 2 /\ ~LookupResolved) =>
              /\ Len(admin_reqs) = 2
              /\ user_id = None
              /\ pc = "get_login"
        /\ (Len(admin_reqs) >= 3 /\ ~GroupListed) =>
              /\ Len(admin_reqs) = 3
              /\ pc = "get_login"
        /\ (Len(admin_reqs) >= 3 /\ GroupListed) =>
              /\ Len(admin_reqs) = 4
              /\ admin_reqs[4].method = "PUT"
              /\ pc = "get_login"

\* The user was resolved and the listing answered 200 without the group
\* load_test: three admin requests, no PUT, and the login walk is next.
C15_Witness ==
    /\ variant = "user_cookies1"
    /\ pc = "get_login"
    /\ Len(admin_reqs) = 3
    /\ LookupResolved
    /\ admin_reqs[3].resp.status = 200
    /\ ~admin_reqs[3].resp.body

\* The bundle holds a non-empty value for each of the three cookie names.
HoldsAllThree(d) == \A k \in SessionCookieNames : k \in DOMAIN d /\ d[k] /= <<>>

\* The step that ends an iteration of user_cookies.py writes the row of the
\* user's three cookies if the bundle holds all three, and nothing otherwise.
RequireAllStep ==
    (variant = "user_cookies" /\ pc = "record") =>
        IF ret /= None /\ HoldsAllThree(ret[1])
        THEN file' = Append(file, JoinComma(<< username, COMMON_PASSWORD,
                                               ret[1]["vunet_session"],
                                               ret[1]["X-VuNet-HTTP-Info"],
                                               ret[1]["grafana_session_expiry"] >>))
        ELSE file' = file

\* Every row of the sink of user_cookies.py has three non-empty cookie fields.
RequireAllRows ==
    variant = "user_cookies" =>
        \A k \in 1..Len(DataRows) :
            /\ Len(SplitComma(DataRows[k])) = 5
            /\ \A f \in 3..5 : SplitComma(DataRows[k])[f] \notin {<<>>, NoneText}

\* C16: in user_cookies.py a row is written for a user if and only if the
\* returned bundle holds non-empty values for vunet_session,
\* X-VuNet-HTTP-Info and grafana_session_expiry, so every row of that sink
\* has three non-empty cookie fields.
C16_RequireAllThreeCookies == []RequireAllRows /\ [][RequireAllStep]_vars

\* user_cookies.py created its first user, the walk returned a bundle that
\* does not hold all three cookies, and the iteration ended without a
\* failure and without a row.
C16_Witness ==
    /\ variant = "user_cookies"
    /\ pc = "loop"
    /\ i = 1
    /\ n_create = 1
    /\ failures = 0
    /\ DataRows = <<>>
    /\ file = <<>>

\* The header line of the scripts that write one.
HeaderLines == IF variant \in {"dashboard_user", "new_users"} THEN <<HEADER>> ELSE <<>>

\* C17: in user_cookies1.py the content the sink held before the run stays
\* unchanged as a prefix of its content, for any N and any outcome; in the
\* other scripts the sink after a completed run holds exactly the header
\* (where the script writes one) followed by this run's rows and nothing of
\* an earlier run, so N = 0 leaves the header alone or an empty file.
C17_OpenModeFixesWhatSurvives ==
    /\ variant = "user_cookies1" =>
          /\ Len(file) = Len(file0) + Len(rows)
          /\ SubSeq(file, 1, Len(file0)) = file0
    /\ (variant /= "user_cookies1" /\ pc = "done") =>
          /\ Len(file) = Len(HeaderLines) + Len(rows)
          /\ SubSeq(file, 1, Len(HeaderLines)) = HeaderLines
          /\ \A k \in 1..Len(rows) :
                /\ RowOf(file[Len(HeaderLines) + k], rows[k].user)
                /\ \A o \in 1..Len(file0) : file[Len(HeaderLines) + k] /= file0[o]
          /\ num_users = 0 => file = HeaderLines

\* user_cookies1.py wrote one row after the row of an earlier run and was
\* then ended by an exception.
C17_Witness ==
    /\ variant = "user_cookies1"
    /\ pc = "crashed"
    /\ file0 = <<OLD_ROW>>
    /\ Len(file) = 2
    /\ file[1] = OLD_ROW

\* C18: when the session acquisition returns an empty mapping, the step that
\* ends the iteration writes nothing and goes on to the next iteration, as
\* for a failed acquisition: no row is produced from an empty bundle.
C18_EmptyBundleWritesNoRow ==
    [][(pc = "record" /\ ret = Some(EmptyDict)) =>
          /\ file' = file
          /\ rows' = rows
          /\ sink' = sink
          /\ pc' = "loop"
          /\ i' = i + 1]_vars

\* dashboard_user.py created its first user and logged in without an error;
\* the bundle was empty (any other bundle gets a row there) and the iteration
\* ended without a row.
C18_Witness ==
    /\ variant = "dashboard_user"
    /\ pc = "loop"
    /\ i = 1
    /\ n_create = 1
    /\ failures = 0
    /\ rows = <<>>
    /\ file = <<HEADER>>

\* The credential POST of this attempt was answered without a Location.
PostWithoutLocation ==
    /\ Len(reqs) >= 3
    /\ reqs[3].method = "POST"
    /\ reqs[3].resp.status >= 0
    /\ ~reqs[3].resp.location

\* After such a POST the attempt has returned failure, with the POST as its
\* last request.
EndsAtPost ==
    (variant = "user_cookies1" /\ PostWithoutLocation) =>
        /\ Len(reqs) = 3
        /\ pc = "record"
        /\ ret = None
        /\ failed

\* C19: in the redirect walk of user_cookies1.py a credential POST answered
\* without a Location header ends the attempt with failure: no final re-GET
\* of the login URL, the cookie jar is not read back, and no row is written
\* for the user, whatever cookies the responses set.
C19_PostWithoutLocationFails ==
    /\ []EndsAtPost
    /\ [][(variant = "user_cookies1" /\ PostWithoutLocation) =>
             /\ file' = file
             /\ rows' = rows
             /\ pc' = "loop"]_vars

\* In user_cookies1.py the POST was answered without a Location and the
\* attempt returned failure after it, although the responses of the attempt
\* set all three session cookies.
C19_Witness ==
    /\ variant = "user_cookies1"
    /\ pc = "record"
    /\ PostWithoutLocation
    /\ Len(reqs) = 3
    /\ ret = None
    /\ \A k \in SessionCookieNames : k \in DOMAIN set_cookies /\ set_cookies[k] /= <<>>

====
